---- MODULE Spec2Model ----
(***************************************************************************)
(* Chart analysis backend: the table extractor, the LLM client, the status *)
(* checker (backend/chart_analyzer.py) and the HTTP layer over them        *)
(* (backend/app.py).                                                       *)
(*                                                                         *)
(* Python strings are sequences of one-character strings, so that split,   *)
(* strip, upper/lower and substring search are computed character by       *)
(* character as the interpreter computes them.                             *)
(***************************************************************************)
EXTENDS Integers, Sequences, FiniteSets, TLC

VARIABLES
    \* extract_table_from_chart (chart_analyzer.py)
    raw_output,   \* decoded text of the image-to-text model
    lines,        \* raw_output.split('<0x0A>')
    title,        \* local `title`
    headers,      \* local `headers`
    data,         \* local `data`
    parsed,       \* history: headers/data as they stand at line 124
    fallback_ran, \* history: the alternative parsing block was entered
    epc,          \* position in the function
    \* ask_local_llm (chart_analyzer.py)
    question,     \* parameter `question`
    table_data,   \* parameter `table_data`
    chart_title,  \* parameter `title`
    prompt,       \* local `prompt`
    post_outcome, \* history: what requests.post did
    llm_result,   \* what the call returned or raised
    lpc,          \* position in the function
    \* GET /status and the status cache (app.py)
    now,          \* time.time()
    cache,        \* ollama_status_cache
    active,       \* the request threads of the server
    budget,       \* the number of /status requests considered
    spc,          \* per thread: position in status()
    sloc,         \* per thread: locals of status() and its callees
    nreq,         \* history: /status requests received
    last_poll,    \* history: what the last call of check_ollama_status did
    poll_pairs,   \* history: the (running, models) pairs the polls returned
    req_log,      \* history: the completed /status requests
    \* the other endpoints (app.py)
    uploads,      \* the files in UPLOAD_FOLDER
    conversation_contexts,  \* session id -> utterances
    last          \* history: the last request handled and its response

extractVars == <<raw_output, lines, title, headers, data, parsed, fallback_ran, epc>>

llmVars == <<question, table_data, chart_title, prompt, post_outcome, llm_result, lpc>>

statusVars == <<now, cache, active, budget, spc, sloc, nreq, last_poll, poll_pairs, req_log>>

apiVars == <<uploads, conversation_contexts, last>>

vars == <<extractVars, llmVars, statusVars, apiVars>>

-----------------------------------------------------------------------------
(* Bounds *)

MaxLines == 3
MaxQuestionWords == 2
StartTime == 1000
TickSeconds == 10
MaxTicks == 3
MaxStatusRequests == 3
MaxConcurrentRequests == 2

-----------------------------------------------------------------------------
(* Python str primitives *)

Max2(a, b) == IF a >= b THEN a ELSE b

\* s[i:i+len(p)] == p   (i is 1-based)
MatchAt(p, s, i) ==
    /\ i + Len(p) - 1 <= Len(s)
    /\ \A k \in 1..Len(p) : s[i + k - 1] = p[k]

\* `p in s`
StrContains(s, p) == \E i \in 1..(Len(s) + 1) : MatchAt(p, s, i)

RECURSIVE SplitAt(_, _, _, _)
SplitAt(s, sep, i, cur) ==
    IF i > Len(s) THEN <<cur>>
    ELSE IF MatchAt(sep, s, i)
         THEN <<cur>> \o SplitAt(s, sep, i + Len(sep), <<>>)
         ELSE SplitAt(s, sep, i + 1, Append(cur, s[i]))

\* s.split(sep), sep non-empty
StrSplit(s, sep) == SplitAt(s, sep, 1, <<>>)

RECURSIVE StrJoin(_, _)
StrJoin(parts, sep) ==
    IF Len(parts) = 0 THEN <<>>
    ELSE IF Len(parts) = 1 THEN parts[1]
    ELSE parts[1] \o sep \o StrJoin(Tail(parts), sep)

IsSpace(c) == c \in {" ", "\t"}

RECURSIVE LStrip(_)
LStrip(s) == IF s # <<>> /\ IsSpace(Head(s)) THEN LStrip(Tail(s)) ELSE s

RECURSIVE RStrip(_)
RStrip(s) ==
    IF s # <<>> /\ IsSpace(s[Len(s)]) THEN RStrip(SubSeq(s, 1, Len(s) - 1)) ELSE s

\* s.strip()
Strip(s) == LStrip(RStrip(s))

RECURSIVE SplitWsAt(_, _, _)
SplitWsAt(s, i, cur) ==
    IF i > Len(s) THEN (IF cur = <<>> THEN <<>> ELSE <<cur>>)
    ELSE IF IsSpace(s[i])
         THEN (IF cur = <<>> THEN <<>> ELSE <<cur>>) \o SplitWsAt(s, i + 1, <<>>)
         ELSE SplitWsAt(s, i + 1, Append(cur, s[i]))

\* s.split()  (runs of whitespace separate, no empty tokens)
SplitWs(s) == SplitWsAt(s, 1, <<>>)

LowerLetters ==
    <<"a","b","c","d","e","f","g","h","i","j","k","l","m",
      "n","o","p","q","r","s","t","u","v","w","x","y","z">>

UpperLetters ==
    <<"A","B","C","D","E","F","G","H","I","J","K","L","M",
      "N","O","P","Q","R","S","T","U","V","W","X","Y","Z">>

UpperChar(c) ==
    IF \E k \in 1..26 : LowerLetters[k] = c
    THEN UpperLetters[CHOOSE k \in 1..26 : LowerLetters[k] = c]
    ELSE c

LowerChar(c) ==
    IF \E k \in 1..26 : UpperLetters[k] = c
    THEN LowerLetters[CHOOSE k \in 1..26 : UpperLetters[k] = c]
    ELSE c

\* s.upper(), s.lower()
Upper(s) == [k \in 1..Len(s) |-> UpperChar(s[k])]
Lower(s) == [k \in 1..Len(s) |-> LowerChar(s[k])]

DigitChars == {"0","1","2","3","4","5","6","7","8","9"}

\* s.isdigit()
IsDigit(s) == Len(s) > 0 /\ \A k \in 1..Len(s) : s[k] \in DigitChars

\* s.replace(c, '') for a one-character c
RemoveChar(s, c) == SelectSeq(s, LAMBDA x : x # c)

\* s.split(c, 1)[1] for a one-character c occurring in s
AfterFirst(s, c) ==
    LET i == CHOOSE j \in 1..Len(s) : s[j] = c /\ \A k \in 1..(j - 1) : s[k] # c
    IN  SubSeq(s, i + 1, Len(s))

\* str(n) for n >= 0
DigitOf(d) == <<"0","1","2","3","4","5","6","7","8","9">>[d + 1]

RECURSIVE IntToStr(_)
IntToStr(n) == IF n < 10 THEN <<DigitOf(n)>> ELSE IntToStr(n \div 10) \o <<DigitOf(n % 10)>>

\* s.startswith(p)
StartsWith(s, p) == MatchAt(p, s, 1)

-----------------------------------------------------------------------------
(* Literals of extract_table_from_chart *)

RowBreak == <<"<","0","x","0","A",">">>
Pipe == <<"|">>
TITLE == <<"T","I","T","L","E">>
Chart == <<"C","h","a","r","t">>
ColumnPrefix == <<"C","o","l","u","m","n"," ">>
NoDataExtracted ==
    <<"N","o"," ","d","a","t","a"," ","e","x","t","r","a","c","t","e","d">>

\* mutant of GenericHeaders: the columns are numbered from 0
GenericHeadersFromZero(n) == [k \in 1..n |-> ColumnPrefix \o IntToStr(k - 1)]

\* f"Column {i+1}" for i in range(n)
GenericHeaders(n) == [k \in 1..n |-> ColumnPrefix \o IntToStr(k)]

\* [''] * n   (empty for n <= 0)
Blanks(n) == [k \in 1..n |-> <<>>]

-----------------------------------------------------------------------------
(* First pass: lines 71-85 *)

\* [part.strip() for part in line.split('|') if part.strip()]
Parts(line) ==
    LET cells == StrSplit(line, Pipe)
    IN  SelectSeq([k \in 1..Len(cells) |-> Strip(cells[k])], LAMBDA p : p # <<>>)

HasPipe(line) == StrContains(line, Pipe)

\* "TITLE" in line.upper()
ContainsTITLE(line) == StrContains(Upper(line), TITLE)

\* mutants of IsTitleLine: the TITLE test dropped; the TITLE test made
\* case-sensitive
IsTitleLineFirstOnly(line, i) == i = 0
IsTitleLineCaseSensitive(line, i) == StrContains(line, TITLE) \/ i = 0

\* line 77; i is the 0-based index of enumerate
IsTitleLine(line, i) == ContainsTITLE(line) \/ i = 0

\* line 78
TitleOf(parts) == IF parts # <<>> THEN Strip(parts[Len(parts)]) ELSE Chart

\* body of the loop for one line
PrimaryStep(acc, i, line) ==
    IF HasPipe(line)
    THEN LET st == [acc EXCEPT !.table_started = TRUE]
             parts == Parts(line)
         IN  IF IsTitleLine(line, i)
             THEN [st EXCEPT !.title = TitleOf(parts)]
             ELSE IF st.headers = <<>> /\ st.table_started
                  THEN [st EXCEPT !.headers = parts]
                  ELSE IF parts # <<>>
                       THEN [st EXCEPT !.data = Append(@, parts)]
                       ELSE st
    ELSE acc

RECURSIVE PrimaryLoop(_, _, _)
PrimaryLoop(acc, ls, i) ==
    IF i >= Len(ls) THEN acc
    ELSE PrimaryLoop(PrimaryStep(acc, i, ls[i + 1]), ls, i + 1)

\* lines 66-85
PrimaryPassResult(raw) ==
    LET ls == StrSplit(raw, RowBreak)
    IN  PrimaryLoop([title |-> Chart, headers |-> <<>>, data |-> <<>>,
                     table_started |-> FALSE], ls, 0)

-----------------------------------------------------------------------------
(* Alternative parsing: lines 88-116 *)

\* lines 92-93
FallbackTitle(ls, t) ==
    IF Len(ls) > 0 /\ StrContains(ls[1], <<":">>)
    THEN Strip(AfterFirst(ls[1], ":"))
    ELSE t

\* lines 96-105
RECURSIVE PotentialData(_)
PotentialData(ls) ==
    IF ls = <<>> THEN <<>>
    ELSE LET line == Head(ls)
             rest == PotentialData(Tail(ls))
         IN  IF Strip(line) = <<>> \/ ContainsTITLE(line) THEN rest
             ELSE IF Len(SplitWs(line)) >= 2 THEN <<SplitWs(line)>> \o rest
             ELSE rest

\* part.replace('.', '').replace('%', '').isdigit()
IsNumeric(part) == IsDigit(RemoveChar(RemoveChar(part, "."), "%"))

\* line 110
FirstRowIsHeader(row) == \A k \in 1..Len(row) : ~IsNumeric(row[k])

\* lines 88-116; the except block (117-123) is not reachable, since no
\* operation of the try block raises on a list of str.
FallbackResult(ls, t, h, d) ==
    IF h = <<>> \/ d = <<>>
    THEN LET t2 == FallbackTitle(ls, t)
             pd == PotentialData(ls)
         IN  IF pd # <<>>
             THEN IF FirstRowIsHeader(pd[1])
                  THEN [title |-> t2, headers |-> pd[1], data |-> Tail(pd), ran |-> TRUE]
                  ELSE [title |-> t2, headers |-> GenericHeaders(Len(pd[1])),
                        data |-> pd, ran |-> TRUE]
             ELSE [title |-> t2, headers |-> h, data |-> d, ran |-> TRUE]
    ELSE [title |-> t, headers |-> h, data |-> d, ran |-> FALSE]

-----------------------------------------------------------------------------
(* Normalisation: lines 125-140 *)

RECURSIVE LongestRow(_)
LongestRow(d) == IF d = <<>> THEN 0 ELSE Max2(Len(Head(d)), LongestRow(Tail(d)))

\* mutant of MaxCols: the rows are not measured
MaxColsHeadersOnly(h, d) == Max2(IF h # <<>> THEN Len(h) ELSE 0, 1)

\* line 127
MaxCols(h, d) == Max2(Max2(IF h # <<>> THEN Len(h) ELSE 0, 1), LongestRow(d))

\* lines 130-133
PadHeaders(h, n) == IF h = <<>> THEN GenericHeaders(n) ELSE h \o Blanks(n - Len(h))

\* line 136
PadRows(d, n) == [k \in 1..Len(d) |-> d[k] \o Blanks(n - Len(d[k]))]

PlaceholderHeaders == <<ColumnPrefix \o <<"1">>>>
PlaceholderData == <<<<NoDataExtracted>>>>

\* mutant of NormalizeResult: headers that were found survive an empty table
NormalizeKeepsHeaders(h, d) ==
    IF d # <<>>
    THEN [headers |-> PadHeaders(h, MaxCols(h, d)), data |-> PadRows(d, MaxCols(h, d))]
    ELSE [headers |-> IF h = <<>> THEN PlaceholderHeaders ELSE h, data |-> PlaceholderData]

\* lines 126-140
NormalizeResult(h, d) ==
    IF d # <<>>
    THEN [headers |-> PadHeaders(h, MaxCols(h, d)), data |-> PadRows(d, MaxCols(h, d))]
    ELSE [headers |-> PlaceholderHeaders, data |-> PlaceholderData]

-----------------------------------------------------------------------------
(* Raw model outputs considered: up to MaxLines lines drawn from LineSet,   *)
(* joined by the row-break marker, plus the worked example of the spec.    *)

LineSet ==
    { <<>>,                                          \* ""
      <<"a","b">>,                                   \* "ab"
      <<"t",":"," ","s">>,                           \* "t: s"
      <<"a"," ","b">>,                               \* "a b"
      <<"7"," ","2","%">>,                           \* "7 2%"
      <<"a","|","b">>,                               \* "a|b"
      <<"7","|","8","|","9">>,                       \* "7|8|9"
      <<"c","|">>,                                   \* "c|"
      <<" ","|"," ">>,                               \* " | "
      <<"T","I","T","L","E","|","s">>,               \* "TITLE|s"
      <<"t","i","t","l","e"," ","|"," ","u"," ">>,   \* "title | u "
      <<"T","i","t","l","e"," ","x">> }              \* "Title x"

ExampleRaw ==
    <<"S","a","l","e","s"," ","b","y"," ","R","e","g","i","o","n">> \o RowBreak \o
    <<"R","e","g","i","o","n","|","A","m","o","u","n","t">> \o RowBreak \o
    <<"E","a","s","t","|","1","0","0">> \o RowBreak \o
    <<"W","e","s","t","|","2","0","0">>

LineSeqs == UNION { [1..n -> LineSet] : n \in 1..MaxLines }

\* "ab", " | ", "a|b", "7|8|9", "c|"
MixedRaw ==
    <<"a","b">> \o RowBreak \o <<" ","|"," ">> \o RowBreak \o <<"a","|","b">> \o
    RowBreak \o <<"7","|","8","|","9">> \o RowBreak \o <<"c","|">>

RawOutputs == { StrJoin(ls, RowBreak) : ls \in LineSeqs } \cup { ExampleRaw, MixedRaw }

-----------------------------------------------------------------------------
(* extract_table_from_chart as a process *)

\* ask_local_llm not called
IdleLlm ==
    /\ question = <<>>
    /\ table_data = <<>>
    /\ chart_title = <<>>
    /\ prompt = <<>>
    /\ post_outcome = [kind |-> "none"]
    /\ llm_result = [kind |-> "none", value |-> <<>>, exc |-> "none"]
    /\ lpc = "idle"

Threads == {"t1", "t2"}

NoPoll == [outcome |-> [kind |-> "none"], result |-> [kind |-> "none"]]

\* None where a bool ("True", "False") is expected
PyNone == "None"

\* a list of model names, and None where such a list is expected
ListOf(names) == [none |-> FALSE, names |-> names]
NoneList == [none |-> TRUE, names |-> <<>>]

\* app.py lines 76-81: the cache as the module creates it
EmptyCache == [last_check |-> 0, status |-> PyNone, models |-> NoneList]

NoLocals ==
    [stale |-> FALSE, current_time |-> 0, cached_status |-> PyNone,
     cached_models |-> NoneList, running |-> PyNone, models |-> NoneList]

\* no /status request is served
IdleStatus ==
    /\ now = 0
    /\ cache = EmptyCache
    /\ active = {}
    /\ budget = 0
    /\ spc = [t \in Threads |-> "idle"]
    /\ sloc = [t \in Threads |-> NoLocals]
    /\ nreq = 0
    /\ last_poll = NoPoll
    /\ poll_pairs = {}
    /\ req_log = <<>>

NoTable == [title |-> <<>>, headers |-> <<>>, data |-> <<>>, rows |-> <<>>]

NoRequest ==
    [endpoint |-> "none", request |-> [kind |-> "none"], saved |-> FALSE,
     deplot_invoked |-> FALSE, check |-> [kind |-> "none"], llm_called |-> FALSE,
     llm_question |-> <<>>, post |-> [kind |-> "none"], attempts |-> 0,
     slept |-> 0, trimmed |-> FALSE, extraction |-> "none", remove |-> "none",
     response |-> [code |-> 0, kind |-> "none", error |-> "", text |-> <<>>,
                   table |-> NoTable]]

\* no request to the other endpoints was handled
IdleApi ==
    /\ uploads = {}
    /\ conversation_contexts = <<>>
    /\ last = NoRequest

\* extract_table_from_chart not called
IdleExtract ==
    /\ raw_output = <<>>
    /\ lines = <<>>
    /\ title = <<>>
    /\ headers = <<>>
    /\ data = <<>>
    /\ parsed = [headers |-> <<>>, data |-> <<>>]
    /\ fallback_ran = FALSE
    /\ epc = "idle"

InitExtract ==
    /\ IdleLlm
    /\ IdleStatus
    /\ IdleApi
    /\ raw_output \in RawOutputs
    /\ lines = <<>>
    /\ title = Chart
    /\ headers = <<>>
    /\ data = <<>>
    /\ parsed = [headers |-> <<>>, data |-> <<>>]
    /\ fallback_ran = FALSE
    /\ epc = "decoded"

\* lines 66-85
PrimaryPass ==
    /\ epc = "decoded"
    /\ LET r == PrimaryPassResult(raw_output)
       IN  /\ title' = r.title
           /\ headers' = r.headers
           /\ data' = r.data
    /\ lines' = StrSplit(raw_output, RowBreak)
    /\ epc' = "primary"
    /\ UNCHANGED <<raw_output, parsed, fallback_ran>>
    /\ UNCHANGED <<llmVars, statusVars, apiVars>>

\* lines 87-123
Fallback ==
    /\ epc = "primary"
    /\ LET r == FallbackResult(lines, title, headers, data)
       IN  /\ title' = r.title
           /\ headers' = r.headers
           /\ data' = r.data
           /\ fallback_ran' = r.ran
           /\ parsed' = [headers |-> r.headers, data |-> r.data]
    /\ epc' = "parsed"
    /\ UNCHANGED <<raw_output, lines>>
    /\ UNCHANGED <<llmVars, statusVars, apiVars>>

\* lines 125-140, 152
Normalize ==
    /\ epc = "parsed"
    /\ LET r == NormalizeResult(headers, data)
       IN  /\ headers' = r.headers
           /\ data' = r.data
    /\ epc' = "done"
    /\ UNCHANGED <<raw_output, lines, title, parsed, fallback_ran>>
    /\ UNCHANGED <<llmVars, statusVars, apiVars>>

NextExtract == PrimaryPass \/ Fallback \/ Normalize

SpecExtract == InitExtract /\ [][NextExtract]_vars


-----------------------------------------------------------------------------
(* ask_local_llm: chart_analyzer.py lines 155-205 *)

\* line 159
ColorTerms ==
    << <<"c","o","l","o","r">>, <<"c","o","l","o","u","r","s">>,
       <<"v","i","s","u","a","l">>, <<"a","p","p","e","a","r","a","n","c","e">>,
       <<"s","t","y","l","e">>, <<"d","e","s","i","g","n">>,
       <<"s","c","h","e","m","e">> >>

\* mutant of IsColorQuestion: the question is not lower-cased
IsColorQuestionCaseSensitive(q) ==
    \E k \in 1..Len(ColorTerms) : StrContains(q, ColorTerms[k])

\* line 159: any(term in question.lower() for term in [...])
IsColorQuestion(q) ==
    \E k \in 1..Len(ColorTerms) : StrContains(Lower(q), ColorTerms[k])

\* lines 162-165
BasePrompt(t, td, q) ==
    <<"T","i","t","l","e",":"," ">> \o t \o <<"\n","D","a","t","a",":"," ">> \o td \o
    <<"\n","Q","u","e","s","t","i","o","n",":"," ">> \o q \o <<"\n">>

\* lines 169-177
VisualInstructions ==
    <<"\n","I","M","P","O","R","T","A","N","T",":"," ","Y","o","u","r"," ",
      "t","a","s","k"," ","i","s"," ","t","o"," ","a","n","a","l","y","z",
      "e"," ","t","h","e"," ","v","i","s","u","a","l"," ","e","l","e","m",
      "e","n","t","s"," ","o","f"," ","t","h","i","s"," ","c","h","a","r",
      "t",","," ","w","i","t","h"," ","s","p","e","c","i","a","l"," ","a",
      "t","t","e","n","t","i","o","n"," ","t","o"," ","c","o","l","o","r",
      "s","."," ","P","l","e","a","s","e"," ","p","r","o","v","i","d","e",
      ":","\n","1","."," ","A"," ","d","e","t","a","i","l","e","d"," ","d",
      "e","s","c","r","i","p","t","i","o","n"," ","o","f"," ","a","l","l",
      " ","c","o","l","o","r","s"," ","u","s","e","d"," ","i","n"," ","t",
      "h","e"," ","c","h","a","r","t","\n","2","."," ","W","h","a","t"," ",
      "e","a","c","h"," ","c","o","l","o","r"," ","r","e","p","r","e","s",
      "e","n","t","s"," ","i","n"," ","t","h","e"," ","c","o","n","t","e",
      "x","t"," ","o","f"," ","t","h","e"," ","d","a","t","a","\n","3",".",
      " ","H","o","w"," ","c","o","l","o","r","s"," ","a","r","e"," ","u",
      "s","e","d"," ","t","o"," ","d","i","s","t","i","n","g","u","i","s",
      "h"," ","b","e","t","w","e","e","n"," ","d","i","f","f","e","r","e",
      "n","t"," ","d","a","t","a"," ","p","o","i","n","t","s",","," ","c",
      "a","t","e","g","o","r","i","e","s",","," ","o","r"," ","v","a","l",
      "u","e","s","\n","4","."," ","A","n","y"," ","c","o","l","o","r"," ",
      "p","a","t","t","e","r","n","s",","," ","g","r","a","d","i","e","n",
      "t","s",","," ","o","r"," ","v","i","s","u","a","l"," ","i","n","d",
      "i","c","a","t","o","r","s"," ","o","f"," ","i","m","p","o","r","t",
      "a","n","c","e","\n","5","."," ","H","o","w"," ","e","f","f","e","c",
      "t","i","v","e","l","y"," ","t","h","e"," ","c","o","l","o","r"," ",
      "s","c","h","e","m","e"," ","c","o","m","m","u","n","i","c","a","t",
      "e","s"," ","t","h","e"," ","d","a","t","a","\n","\n","F","o","c","u",
      "s"," ","p","r","i","m","a","r","i","l","y"," ","o","n"," ","t","h",
      "e"," ","V","I","S","U","A","L"," ","A","P","P","E","A","R","A","N",
      "C","E"," ","r","a","t","h","e","r"," ","t","h","a","n"," ","j","u",
      "s","t"," ","t","h","e"," ","n","u","m","e","r","i","c"," ","d","a",
      "t","a",".">>

\* lines 179-180
GenericInstructions ==
    <<"\n","P","l","e","a","s","e"," ","p","r","o","v","i","d","e"," ","a",
      " ","d","e","t","a","i","l","e","d"," ","a","n","s","w","e","r"," ",
      "b","a","s","e","d"," ","o","n"," ","t","h","e"," ","d","a","t","a",
      " ","a","n","d"," ","q","u","e","s","t","i","o","n"," ","a","b","o",
      "v","e","."," ","W","h","e","n"," ","r","e","l","e","v","a","n","t",
      ","," ","i","n","c","l","u","d","e"," ","o","b","s","e","r","v","a",
      "t","i","o","n","s"," ","a","b","o","u","t"," ","t","h","e"," ","v",
      "i","s","u","a","l"," ","e","l","e","m","e","n","t","s"," ","o","f",
      " ","t","h","e"," ","c","h","a","r","t",","," ","i","n","c","l","u",
      "d","i","n","g"," ","c","o","l","o","r","s"," ","a","n","d"," ","d",
      "e","s","i","g","n",".">>

\* lines 159-180
BuildPromptOf(q, td, t) ==
    IF IsColorQuestion(q)
    THEN BasePrompt(t, td, q) \o VisualInstructions
    ELSE BasePrompt(t, td, q) \o GenericInstructions

ErrorPrefix == <<"E","r","r","o","r",":"," ">>

\* line 202
TimeoutMessage ==
    <<"E","r","r","o","r",":"," ","R","e","q","u","e","s","t"," ","t","i",
      "m","e","d"," ","o","u","t"," ","a","f","t","e","r"," ","7"," ","m",
      "i","n","u","t","e","s","."," ","P","l","e","a","s","e"," ","t","r",
      "y"," ","a","g","a","i","n"," ","w","i","t","h"," ","a"," ","s","i",
      "m","p","l","e","r"," ","q","u","e","s","t","i","o","n"," ","o","r",
      " ","a"," ","d","i","f","f","e","r","e","n","t"," ","m","o","d","e",
      "l",".">>

\* line 196
OllamaApiError(status, text) ==
    <<"E","r","r","o","r"," ","f","r","o","m"," ","O","l","l","a","m","a"," ",
      "A","P","I",":"," ">> \o IntToStr(status) \o <<" ","-"," ">> \o text

Returned(v) == [kind |-> "return", value |-> v, exc |-> "none"]
Raised(e) == [kind |-> "raise", value |-> <<>>, exc |-> e]

\* Outcomes of requests.post (line 183): a timeout, another RequestException
\* with message msg, or a response with a status code and a body; a body is
\* its text, whether it parses as JSON, and for a JSON object whether it has
\* the key "response" and that key's value.
ConnectionMessages == { <<"r","e","f","u","s","e","d">> }

\* str(e) of the exception response.json() raises
JsonErrorMessage == <<"E","x","p","e","c","t","i","n","g"," ","v","a","l","u","e">>

AnswerTexts == { <<"4","2">>, <<"E","r","r","o","r",":"," ","n","o">> }

GenerateBodies ==
    { [text |-> <<"o","o","p","s">>, json |-> "invalid", has_key |-> FALSE, value |-> <<>>],
      [text |-> <<"{","}">>, json |-> "object", has_key |-> FALSE, value |-> <<>>] }
    \cup
    { [text |-> <<"{",".",".","}">>, json |-> "object", has_key |-> TRUE, value |-> a] :
        a \in AnswerTexts }

NoBody == [text |-> <<>>, json |-> "invalid", has_key |-> FALSE, value |-> <<>>]

PostOutcomes ==
    { [kind |-> "timeout", msg |-> <<>>, status |-> 0, body |-> NoBody] }
    \cup
    { [kind |-> "connection", msg |-> m, status |-> 0, body |-> NoBody] :
        m \in ConnectionMessages }
    \cup
    { [kind |-> "response", msg |-> <<>>, status |-> s, body |-> b] :
        s \in {200, 404, 500}, b \in GenerateBodies }

\* response.json()[key] (lines 194, 213): a body that is not JSON makes
\* response.json() raise; that exception is a RequestException from requests
\* 2.27 on (jsonIsRequestError) and a plain ValueError before; a JSON object
\* without the key raises KeyError.
JsonField(body, jsonIsRequestError) ==
    IF body.json = "invalid"
    THEN Raised(IF jsonIsRequestError THEN "RequestException" ELSE "ValueError")
    ELSE IF ~body.has_key THEN Raised("KeyError")
    ELSE Returned(body.value)

\* lines 183-205
AskResult(outcome, jsonIsRequestError) ==
    IF outcome.kind = "timeout" THEN Returned(TimeoutMessage)
    ELSE IF outcome.kind = "connection" THEN Returned(ErrorPrefix \o outcome.msg)
    ELSE IF outcome.status = 200
         THEN LET r == JsonField(outcome.body, jsonIsRequestError)
              IN  IF r.kind = "raise" /\ r.exc = "RequestException"
                  THEN Returned(ErrorPrefix \o JsonErrorMessage)
                  ELSE r
         ELSE Returned(ErrorPrefix \o OllamaApiError(outcome.status, outcome.body.text))

\* Questions considered: up to MaxQuestionWords words joined by blanks
QuestionWords ==
    { <<"w","h","a","t">>, <<"c","o","l","o","r","s">>, <<"C","o","l","o","u","r","s">>,
      <<"c","o","l","o","u","r">>, <<"V","I","S","U","A","L">>,
      <<"r","e","s","t","y","l","e","d">>, <<"D","e","s","i","g","n">>,
      <<"s","c","h","e","m","e","s">>, <<"a","p","p","e","a","r","a","n","c","e">>,
      <<"c","o","l">>, <<"o","r">> }

Questions ==
    { StrJoin(ws, <<" ">>) :
        ws \in UNION { [1..n -> QuestionWords] : n \in 0..MaxQuestionWords } }

TableTexts == { <<>>, <<"c","o","l","o","r","|","7">> }

Titles == { <<"S","a","l","e","s">> }

InitLlm ==
    /\ IdleExtract
    /\ IdleStatus
    /\ IdleApi
    /\ question \in Questions
    /\ table_data \in TableTexts
    /\ chart_title \in Titles
    /\ prompt = <<>>
    /\ post_outcome = [kind |-> "none"]
    /\ llm_result = [kind |-> "none", value |-> <<>>, exc |-> "none"]
    /\ lpc = "called"

\* lines 158-180
BuildPrompt ==
    /\ lpc = "called"
    /\ prompt' = BuildPromptOf(question, table_data, chart_title)
    /\ lpc' = "posting"
    /\ UNCHANGED <<question, table_data, chart_title, post_outcome, llm_result>>
    /\ UNCHANGED <<extractVars, statusVars, apiVars>>

\* lines 183-205
Post ==
    /\ lpc = "posting"
    /\ \E outcome \in PostOutcomes, jsonIsRequestError \in BOOLEAN :
          /\ post_outcome' = outcome
          /\ llm_result' = AskResult(outcome, jsonIsRequestError)
    /\ lpc' = "finished"
    /\ UNCHANGED <<question, table_data, chart_title, prompt>>
    /\ UNCHANGED <<extractVars, statusVars, apiVars>>

NextLlm == BuildPrompt \/ Post

SpecLlm == InitLlm /\ [][NextLlm]_vars


-----------------------------------------------------------------------------
(* check_ollama_status: chart_analyzer.py lines 208-218 *)

ModelLists == { <<"llama3">> }

TagsBodies ==
    { [text |-> <<"o","o","p","s">>, json |-> "invalid", has_key |-> FALSE, value |-> <<>>],
      [text |-> <<"{","}">>, json |-> "object", has_key |-> FALSE, value |-> <<>>] }
    \cup
    { [text |-> <<"{",".",".","}">>, json |-> "object", has_key |-> TRUE, value |-> m] :
        m \in ModelLists }

\* Outcomes of requests.get (line 211)
GetOutcomes ==
    { [kind |-> "timeout", msg |-> <<>>, status |-> 0, body |-> NoBody] }
    \cup
    { [kind |-> "connection", msg |-> m, status |-> 0, body |-> NoBody] :
        m \in ConnectionMessages }
    \cup
    { [kind |-> "response", msg |-> <<>>, status |-> s, body |-> b] :
        s \in {200, 500}, b \in TagsBodies }

StatusPair(running, models) == [running |-> running, models |-> models]

\* lines 210-218: the (running, models) pair returned, or the exception
\* that leaves the function
CheckOllamaStatus(outcome, jsonIsRequestError) ==
    IF outcome.kind \in {"timeout", "connection"}
    THEN Returned(StatusPair("False", <<>>))
    ELSE IF outcome.status = 200
         THEN LET r == JsonField(outcome.body, jsonIsRequestError)
              IN  IF r.kind = "raise"
                  THEN IF r.exc = "RequestException"
                       THEN Returned(StatusPair("False", <<>>))
                       ELSE [kind |-> "raise", value |-> StatusPair(PyNone, <<>>),
                             exc |-> r.exc]
                  ELSE Returned(StatusPair("True", r.value))
         ELSE Returned(StatusPair("False", <<>>))

-----------------------------------------------------------------------------
(* GET /status: app.py lines 76-94, 114-138.  Each thread of the server    *)
(* runs status(); the cache is read and written one dictionary access at a *)
(* time, without a lock.                                                   *)

CacheDuration == 30

StatusReply(ok, running, models) ==
    [code |-> 200, has_ollama |-> ok, ollama_available |-> running,
     available_models |-> models]

LogRequest(t, polled, refreshed, reply) ==
    Append(req_log, [thread |-> t, time |-> sloc[t].current_time, stale |-> sloc[t].stale,
                     polled |-> polled, refreshed |-> refreshed, reply |-> reply])

\* a request arrives and a thread starts status()
StatusRequest(t) ==
    /\ t \in active
    /\ spc[t] = "idle"
    /\ nreq < budget
    /\ nreq' = nreq + 1
    /\ sloc' = [sloc EXCEPT ![t] = NoLocals]
    /\ spc' = [spc EXCEPT ![t] = "read_clock"]
    /\ UNCHANGED <<now, cache, active, budget, last_poll, poll_pairs, req_log>>
    /\ UNCHANGED <<extractVars, llmVars, apiVars>>

\* line 85
ReadClock(t) ==
    /\ spc[t] = "read_clock"
    /\ sloc' = [sloc EXCEPT ![t].current_time = now]
    /\ spc' = [spc EXCEPT ![t] = "compare"]
    /\ UNCHANGED <<now, cache, active, budget, nreq, last_poll, poll_pairs, req_log>>
    /\ UNCHANGED <<extractVars, llmVars, apiVars>>

\* lines 86, 88, 120
CompareAge(t) ==
    /\ spc[t] = "compare"
    /\ IF sloc[t].current_time - cache.last_check < CacheDuration
       THEN /\ spc' = [spc EXCEPT ![t] = "read_status"]
            /\ sloc' = [sloc EXCEPT ![t].stale = FALSE]
       ELSE /\ spc' = [spc EXCEPT ![t] = "poll"]
            /\ sloc' = [sloc EXCEPT ![t].stale = TRUE]
    /\ UNCHANGED <<now, cache, active, budget, nreq, last_poll, poll_pairs, req_log>>
    /\ UNCHANGED <<extractVars, llmVars, apiVars>>

\* line 87, first element of the tuple
ReadCachedStatus(t) ==
    /\ spc[t] = "read_status"
    /\ sloc' = [sloc EXCEPT ![t].cached_status = cache.status]
    /\ spc' = [spc EXCEPT ![t] = "read_models"]
    /\ UNCHANGED <<now, cache, active, budget, nreq, last_poll, poll_pairs, req_log>>
    /\ UNCHANGED <<extractVars, llmVars, apiVars>>

\* line 87, second element of the tuple; lines 120-125
ReadCachedModels(t) ==
    /\ spc[t] = "read_models"
    /\ sloc' = [sloc EXCEPT ![t].cached_models = cache.models]
    /\ IF sloc[t].cached_status # PyNone
       THEN /\ spc' = [spc EXCEPT ![t] = "idle"]
            /\ req_log' = LogRequest(t, FALSE, FALSE,
                              StatusReply(TRUE, sloc[t].cached_status, cache.models))
       ELSE /\ spc' = [spc EXCEPT ![t] = "poll"]
            /\ UNCHANGED req_log
    /\ UNCHANGED <<now, cache, active, budget, nreq, last_poll, poll_pairs>>
    /\ UNCHANGED <<extractVars, llmVars, apiVars>>

\* line 128: check_ollama_status() sends its GET
PollStart(t) ==
    /\ spc[t] = "poll"
    /\ spc' = [spc EXCEPT ![t] = "polling"]
    /\ UNCHANGED <<now, cache, active, budget, sloc, nreq, last_poll, poll_pairs, req_log>>
    /\ UNCHANGED <<extractVars, llmVars, apiVars>>

\* line 128: check_ollama_status() returns or raises; lines 136-138
PollEnd(t) ==
    /\ spc[t] = "polling"
    /\ \E outcome \in GetOutcomes, jsonIsRequestError \in BOOLEAN :
          LET r == CheckOllamaStatus(outcome, jsonIsRequestError)
          IN  /\ last_poll' = [outcome |-> outcome, result |-> r]
              /\ poll_pairs' = IF r.kind = "return" THEN poll_pairs \cup {r.value}
                                ELSE poll_pairs
              /\ IF r.kind = "raise"
                 THEN /\ spc' = [spc EXCEPT ![t] = "idle"]
                      /\ req_log' = LogRequest(t, TRUE, FALSE,
                                               StatusReply(FALSE, PyNone, NoneList))
                      /\ UNCHANGED sloc
                 ELSE /\ spc' = [spc EXCEPT ![t] = "write_last_check"]
                      /\ sloc' = [sloc EXCEPT ![t].running = r.value.running,
                                              ![t].models = ListOf(r.value.models)]
                      /\ UNCHANGED req_log
    /\ UNCHANGED <<now, cache, active, budget, nreq>>
    /\ UNCHANGED <<extractVars, llmVars, apiVars>>

\* line 92
WriteLastCheck(t) ==
    /\ spc[t] = "write_last_check"
    /\ cache' = [cache EXCEPT !.last_check = now]
    /\ spc' = [spc EXCEPT ![t] = "write_status"]
    /\ UNCHANGED <<now, active, budget, sloc, nreq, last_poll, poll_pairs, req_log>>
    /\ UNCHANGED <<extractVars, llmVars, apiVars>>

\* line 93
WriteStatus(t) ==
    /\ spc[t] = "write_status"
    /\ cache' = [cache EXCEPT !.status = sloc[t].running]
    /\ spc' = [spc EXCEPT ![t] = "write_models"]
    /\ UNCHANGED <<now, active, budget, sloc, nreq, last_poll, poll_pairs, req_log>>
    /\ UNCHANGED <<extractVars, llmVars, apiVars>>

\* line 94; lines 131-135
WriteModels(t) ==
    /\ spc[t] = "write_models"
    /\ cache' = [cache EXCEPT !.models = sloc[t].models]
    /\ spc' = [spc EXCEPT ![t] = "idle"]
    /\ req_log' = LogRequest(t, TRUE, TRUE,
                             StatusReply(TRUE, sloc[t].running, sloc[t].models))
    /\ UNCHANGED <<now, active, budget, sloc, nreq, last_poll, poll_pairs>>
    /\ UNCHANGED <<extractVars, llmVars, apiVars>>

\* the clock advances
Tick ==
    /\ now < StartTime + MaxTicks * TickSeconds
    /\ now' = now + TickSeconds
    /\ UNCHANGED <<cache, active, budget, spc, sloc, nreq, last_poll, poll_pairs, req_log>>
    /\ UNCHANGED <<extractVars, llmVars, apiVars>>

StatusStep(t) ==
    \/ StatusRequest(t)
    \/ ReadClock(t)
    \/ CompareAge(t)
    \/ ReadCachedStatus(t)
    \/ ReadCachedModels(t)
    \/ PollStart(t)
    \/ PollEnd(t)
    \/ WriteLastCheck(t)
    \/ WriteStatus(t)
    \/ WriteModels(t)

NextStatus == Tick \/ \E t \in Threads : StatusStep(t)

InitStatusWith(threads, requests) ==
    /\ IdleExtract
    /\ IdleLlm
    /\ IdleApi
    /\ now = StartTime
    /\ cache = EmptyCache
    /\ active = threads
    /\ budget = requests
    /\ spc = [t \in Threads |-> "idle"]
    /\ sloc = [t \in Threads |-> NoLocals]
    /\ nreq = 0
    /\ last_poll = NoPoll
    /\ poll_pairs = {}
    /\ req_log = <<>>

\* requests served one after another
SpecStatusSeq == InitStatusWith({"t1"}, MaxStatusRequests) /\ [][NextStatus]_vars

\* requests served concurrently
SpecStatus == InitStatusWith(Threads, MaxConcurrentRequests) /\ [][NextStatus]_vars


-----------------------------------------------------------------------------
(* Helpers of the upload endpoints: app.py lines 47-48, 96-98, 290-291 *)

\* line 48
AllowedExtensions ==
    { <<"p","n","g">>, <<"j","p","g">>, <<"j","p","e","g">>, <<"g","i","f">> }

\* s.rsplit(c, 1)[1] for a one-character c occurring in s
AfterLast(s, c) ==
    LET i == CHOOSE j \in 1..Len(s) : s[j] = c /\ \A k \in (j + 1)..Len(s) : s[k] # c
    IN  SubSeq(s, i + 1, Len(s))

\* mutant of AllowedFile: the extension is not lower-cased; any name that
\* mentions an allowed extension passes
AllowedFileAnyPart(filename) ==
    /\ StrContains(filename, <<".">>)
    /\ \E e \in AllowedExtensions : StrContains(Lower(filename), e)

\* lines 97-98
AllowedFile(filename) ==
    /\ StrContains(filename, <<".">>)
    /\ Lower(AfterLast(filename, ".")) \in AllowedExtensions

SafeChars ==
    { LowerLetters[k] : k \in 1..26 } \cup { UpperLetters[k] : k \in 1..26 } \cup
    DigitChars \cup { "_", ".", "-" }

RECURSIVE StripChars(_, _)
StripChars(s, cs) ==
    IF s # <<>> /\ Head(s) \in cs THEN StripChars(Tail(s), cs)
    ELSE IF s # <<>> /\ s[Len(s)] \in cs THEN StripChars(SubSeq(s, 1, Len(s) - 1), cs)
    ELSE s

\* line 290, werkzeug.utils.secure_filename on an ASCII name: path separators
\* become blanks, runs of blanks become "_", other unsafe characters are
\* dropped, leading and trailing "." and "_" are stripped
SecureFilename(filename) ==
    LET spaced == [k \in 1..Len(filename) |->
                      IF filename[k] \in {"/", "\\"} THEN " " ELSE filename[k]]
        joined == StrJoin(SplitWs(spaced), <<"_">>)
    IN  StripChars(SelectSeq(joined, LAMBDA c : c \in SafeChars), {".", "_"})

\* line 291: os.path.join(UPLOAD_FOLDER, filename)
UploadPath(filename) ==
    <<"u","p","l","o","a","d","s","/">> \o SecureFilename(filename)

\* chart_analyzer.py lines 66-140: the table parsed from a raw model output
ExtractTable(raw) ==
    LET p == PrimaryPassResult(raw)
        f == FallbackResult(StrSplit(raw, RowBreak), p.title, p.headers, p.data)
        n == NormalizeResult(f.headers, f.data)
    IN  [title |-> f.title, headers |-> n.headers, data |-> n.data]

\* app.py lines 305-308: the dict built for one row; a later column with the
\* same header overwrites an earlier one
RowDict(hs, row) ==
    LET cols == { i \in 1..Len(hs) : i <= Len(row) }
    IN  [h \in { hs[i] : i \in cols } |->
            row[CHOOSE i \in cols : hs[i] = h /\ \A j \in cols : hs[j] = h => j <= i]]

\* lines 303-309
SerializableData(hs, d) == [k \in 1..Len(d) |-> RowDict(hs, d[k])]

-----------------------------------------------------------------------------
(* Requests and what the environment does while one is handled *)

UploadFilenames ==
    { <<>>,
      <<"a",".","p","n","g">>,
      <<"b",".","J","P","G">>,
      <<".","g","i","f">>,
      <<"a",".","t","x","t">>,
      <<"p","n","g">>,
      <<"a",".","p","n","g",".","t","x","t">>,
      <<"a",".">> }

UploadRequests ==
    { [kind |-> "upload", has_image |-> FALSE, filename |-> <<>>] } \cup
    { [kind |-> "upload", has_image |-> TRUE, filename |-> f] : f \in UploadFilenames }

\* what the image-to-text model decodes, when it does not raise
\* "t", "a|a", "1|2|3|4": a repeated header name and a row longer than the
\* headers
RepeatedRaw ==
    <<"t">> \o RowBreak \o <<"a","|","a">> \o RowBreak \o
    <<"1","|","2","|","3","|","4">>

ApiRawOutputs == { ExampleRaw, MixedRaw, RepeatedRaw, <<"a","b">> }

ApiGetOutcomes ==
    { [kind |-> "connection", msg |-> <<"r","e","f","u","s","e","d">>, status |-> 0,
       body |-> NoBody] }
    \cup
    { [kind |-> "response", msg |-> <<>>, status |-> 200, body |-> b] : b \in
        { [text |-> <<"{","}">>, json |-> "object", has_key |-> FALSE, value |-> <<>>],
          [text |-> <<"{",".",".","}">>, json |-> "object", has_key |-> TRUE,
           value |-> <<"llama3">>] } }

ApiPostOutcomes ==
    { [kind |-> "timeout", msg |-> <<>>, status |-> 0, body |-> NoBody],
      [kind |-> "connection", msg |-> <<"r","e","f","u","s","e","d">>, status |-> 0,
       body |-> NoBody],
      [kind |-> "response", msg |-> <<>>, status |-> 500,
       body |-> [text |-> <<"o","o","p","s">>, json |-> "invalid", has_key |-> FALSE,
                 value |-> <<>>]],
      [kind |-> "response", msg |-> <<>>, status |-> 200,
       body |-> [text |-> <<"{","}">>, json |-> "object", has_key |-> FALSE,
                 value |-> <<>>]] }
    \cup
    { [kind |-> "response", msg |-> <<>>, status |-> 200,
       body |-> [text |-> <<"{",".",".","}">>, json |-> "object", has_key |-> TRUE,
                 value |-> a]] : a \in AnswerTexts }

\* the JSON bodies of /question and /api/ask-chart: all three fields present
\* or not, and a table text of at least 10 characters or a shorter one
\* what check_ollama_status does on each outcome of its GET, for the builds
\* of requests on which a JSON error is or is not a RequestException
ApiChecks ==
    { CheckOllamaStatus(get, jsonIsRequestError) :
        get \in ApiGetOutcomes, jsonIsRequestError \in BOOLEAN }

\* each outcome of the POST with what ask_local_llm does on it
ApiAsks ==
    { [post |-> post, result |-> AskResult(post, jsonIsRequestError)] :
        post \in ApiPostOutcomes, jsonIsRequestError \in BOOLEAN }

\* the JSON bodies of /question and /api/ask-chart: the three fields present
\* or not, and a table text of at least 10 characters or a shorter one
QuestionRequests ==
    { [kind |-> "question", has_fields |-> FALSE, question |-> <<>>,
       table_data |-> <<>>, title |-> <<>>] } \cup
    { [kind |-> "question", has_fields |-> TRUE, question |-> <<"w","h","y">>,
       table_data |-> td, title |-> <<"S","a","l","e","s">>] :
        td \in { <<"a","|","b">>, <<"|"," ","a"," ","|"," ","b"," ","|","\n">> } }

SessionIds == { "default", "s1" }

GenerateRequests ==
    { [kind |-> "generate", has_input |-> FALSE, input |-> <<>>,
       session_id |-> "default"] } \cup
    { [kind |-> "generate", has_input |-> TRUE, input |-> <<"h","i">>,
       session_id |-> sid] : sid \in SessionIds }

Response(code, kind, error, text) ==
    [code |-> code, kind |-> kind, error |-> error, text |-> text, table |-> NoTable]

TableResponse(t, rows) ==
    [code |-> 200, kind |-> "table", error |-> "", text |-> <<>>,
     table |-> [title |-> t.title, headers |-> t.headers, data |-> t.data, rows |-> rows]]

\* app.py lines 415, 465, 510: the arguments of the retry decorator
MaxRetries == 3
RetryDelay == 2

RetryWrapped == { "/api/generate", "/api/analyze-chart", "/api/ask-chart" }

\* app.py lines 394-409, wrapper: func is invoked until an invocation
\* returns, max_retries times at most, sleeping `delay` seconds after every
\* failed invocation but the last; results[k] is what the k-th invocation
\* does
RetryOnFailure(results, max_retries, delay) ==
    LET returning == { k \in 1..max_retries : results[k].kind = "return" }
        n == IF returning = {} THEN max_retries
             ELSE CHOOSE k \in returning : \A j \in returning : k <= j
    IN  [result |-> results[n], attempts |-> n, slept |-> (n - 1) * delay]

\* the record of a request handled by `endpoint`.  The handlers under the
\* retry decorator return a response from their own except block (lines
\* 460-462, 505-507, 531-533), so every invocation of them returns.
Handled(endpoint, request, response) ==
    LET h == [NoRequest EXCEPT !.endpoint = endpoint, !.request = request,
                               !.response = response, !.attempts = 1]
        w == RetryOnFailure([k \in 1..MaxRetries |-> Returned(h)], MaxRetries, RetryDelay)
    IN  IF endpoint \in RetryWrapped
        THEN [h EXCEPT !.attempts = w.attempts, !.slept = w.slept]
        ELSE h

-----------------------------------------------------------------------------
(* POST /extract: app.py lines 269-331 *)

\* lines 273-286: the response that rejects the upload, if it is rejected
UploadRejection(req) ==
    IF ~req.has_image THEN Response(400, "error", "No image file provided", <<>>)
    ELSE IF req.filename = <<>> THEN Response(400, "error", "No selected file", <<>>)
    ELSE IF ~AllowedFile(req.filename)
         THEN Response(400, "error", "File type not allowed", <<>>)
         ELSE Response(0, "none", "", <<>>)

\* lines 273-286
ExtractRejected ==
    \E req \in UploadRequests :
        /\ UploadRejection(req).code # 0
        /\ last' = Handled("/extract", req, UploadRejection(req))
        /\ UNCHANGED <<uploads, conversation_contexts>>
        /\ UNCHANGED <<extractVars, llmVars, statusVars>>

\* lines 288-292, 322-331: file.save raises
ExtractSaveFails ==
    \E req \in UploadRequests :
        /\ UploadRejection(req).code = 0
        /\ \E removed \in BOOLEAN :
              uploads' = IF removed THEN uploads \ {UploadPath(req.filename)} ELSE uploads
        /\ last' = Handled("/extract", req, Response(500, "error", "exception", <<>>))
        /\ UNCHANGED conversation_contexts
        /\ UNCHANGED <<extractVars, llmVars, statusVars>>

\* lines 288-331: the file is saved and extract_table_from_chart is called;
\* it raises or decodes a raw output; the finally block removes the file
\* unless os.remove raises
ExtractSaved ==
    \E req \in UploadRequests, raised \in BOOLEAN, raw \in ApiRawOutputs,
       removed \in BOOLEAN :
        /\ UploadRejection(req).code = 0
        /\ uploads' = IF removed THEN uploads \ {UploadPath(req.filename)}
                      ELSE uploads \cup {UploadPath(req.filename)}
        /\ last' = [Handled("/extract", req,
                        IF raised THEN Response(500, "error", "exception", <<>>)
                        ELSE LET t == ExtractTable(raw)
                             IN  TableResponse(t, SerializableData(t.headers, t.data)))
                    EXCEPT !.saved = TRUE, !.deplot_invoked = TRUE,
                           !.extraction = IF raised THEN "raised" ELSE "returned",
                           !.remove = IF removed THEN "ok" ELSE "failed"]
        /\ UNCHANGED conversation_contexts
        /\ UNCHANGED <<extractVars, llmVars, statusVars>>

-----------------------------------------------------------------------------
(* POST /api/analyze-chart: app.py lines 464-507.  The handler catches     *)
(* every exception itself, so retry_on_failure (lines 394-409) returns     *)
(* the response of the first attempt.                                      *)

\* lines 470-478
AnalyzeRejected ==
    \E req \in UploadRequests :
        /\ UploadRejection(req).code # 0
        /\ last' = Handled("/api/analyze-chart", req, UploadRejection(req))
        /\ UNCHANGED <<uploads, conversation_contexts>>
        /\ UNCHANGED <<extractVars, llmVars, statusVars>>

\* lines 481-483, 505-507: file.save raises
AnalyzeSaveFails ==
    \E req \in UploadRequests :
        /\ UploadRejection(req).code = 0
        /\ last' = Handled("/api/analyze-chart", req,
                           Response(500, "error", "exception", <<>>))
        /\ UNCHANGED <<uploads, conversation_contexts>>
        /\ UNCHANGED <<extractVars, llmVars, statusVars>>

\* lines 481-507: the file is saved and extract_table_from_chart is called;
\* os.remove is reached only when it returns
AnalyzeSaved ==
    \E req \in UploadRequests, raised \in BOOLEAN, raw \in ApiRawOutputs,
       removed \in BOOLEAN :
        /\ UploadRejection(req).code = 0
        /\ uploads' = IF ~raised /\ removed THEN uploads \ {UploadPath(req.filename)}
                      ELSE uploads \cup {UploadPath(req.filename)}
        /\ last' = [Handled("/api/analyze-chart", req,
                        IF raised THEN Response(500, "error", "exception", <<>>)
                        ELSE LET t == ExtractTable(raw) IN TableResponse(t, t.data))
                    EXCEPT !.saved = TRUE, !.deplot_invoked = TRUE,
                           !.extraction = IF raised THEN "raised" ELSE "returned",
                           !.remove = IF raised THEN "none"
                                      ELSE IF removed THEN "ok" ELSE "failed"]
        /\ UNCHANGED conversation_contexts
        /\ UNCHANGED <<extractVars, llmVars, statusVars>>

-----------------------------------------------------------------------------
(* The endpoints that forward a prompt to ask_local_llm *)

\* mutant of AnswerResponse: an answer that reports an error is answered
\* with an HTTP error
AnswerResponseErrorStatus(r) ==
    IF r.kind = "raise" THEN Response(500, "error", "exception", <<>>)
    ELSE IF StartsWith(r.value, <<"E","r","r","o","r",":">>)
         THEN Response(500, "error", "", r.value)
         ELSE Response(200, "answer", "", r.value)

\* the response built from what ask_local_llm did: the answer in a 200
\* envelope (lines 378-388, 529), or 500 from the handler's except block
AnswerResponse(r) ==
    IF r.kind = "raise" THEN Response(500, "error", "exception", <<>>)
    ELSE Response(200, "answer", "", r.value)

\* POST /question: lines 333-392
Question ==
    \E req \in QuestionRequests, check \in ApiChecks, ask \in ApiAsks :
        LET asked == ask.result
            h == Handled("/question", req, Response(0, "none", "", <<>>))
        IN  /\ last' =
                 IF ~req.has_fields
                 THEN [h EXCEPT !.response =
                          Response(400, "error", "Missing required fields", <<>>)]
                 ELSE IF Len(req.table_data) < 10
                 THEN [h EXCEPT !.response =
                          Response(400, "error", "Invalid table data", <<>>)]
                 ELSE IF check.kind = "raise"
                 THEN [h EXCEPT !.check = check,
                                !.response = Response(500, "error", "exception", <<>>)]
                 ELSE IF check.value.running # "True"
                 THEN [h EXCEPT !.check = check,
                                !.response = Response(503, "error",
                                                 "Ollama is not running", <<>>)]
                 ELSE [h EXCEPT !.check = check, !.llm_called = TRUE,
                                !.llm_question = req.question, !.post = ask.post,
                                !.response = AnswerResponse(asked)]
            /\ UNCHANGED <<uploads, conversation_contexts>>
            /\ UNCHANGED <<extractVars, llmVars, statusVars>>

\* POST /api/ask-chart: lines 509-533
AskChart ==
    \E req \in QuestionRequests, ask \in ApiAsks :
        LET asked == ask.result
            h == Handled("/api/ask-chart", req, Response(0, "none", "", <<>>))
        IN  /\ last' =
                 IF ~req.has_fields
                 THEN [h EXCEPT !.response =
                          Response(400, "error", "Missing required fields", <<>>)]
                 ELSE [h EXCEPT !.llm_called = TRUE, !.llm_question = req.question,
                                !.post = ask.post, !.response = AnswerResponse(asked)]
            /\ UNCHANGED <<uploads, conversation_contexts>>
            /\ UNCHANGED <<extractVars, llmVars, statusVars>>

\* d[k] = v
DictSet(d, k, v) == [x \in DOMAIN d \cup {k} |-> IF x = k THEN v ELSE d[x]]

\* xs[-n:]
LastN(xs, n) == IF Len(xs) <= n THEN xs ELSE SubSeq(xs, Len(xs) - n + 1, Len(xs))

UserPrefix == <<"U","s","e","r",":"," ">>
AssistantPrefix == <<"A","s","s","i","s","t","a","n","t",":"," ">>

\* lines 437-438
GeneratePrompt(context, input) ==
    StrJoin(LastN(context, 5), <<"\n">>) \o <<"\n","\n">> \o UserPrefix \o input \o
    <<"\n","A","s","s","i","s","t","a","n","t",":">>

\* mutant of AppendExchange: the context is never cut
AppendExchangeUncut(context, input, response) ==
    context \o <<UserPrefix \o input, AssistantPrefix \o response>>

\* lines 452-457
AppendExchange(context, input, response) ==
    LastN(context \o <<UserPrefix \o input, AssistantPrefix \o response>>, 10)

\* POST /api/generate: lines 414-462, for a request drawn from `requests`
GenerateWith(requests) ==
    \E req \in requests, check \in ApiChecks, ask \in ApiAsks :
        LET asked == ask.result
            h == Handled("/api/generate", req, Response(0, "none", "", <<>>))
            created == IF req.session_id \in DOMAIN conversation_contexts
                       THEN conversation_contexts
                       ELSE DictSet(conversation_contexts, req.session_id, <<>>)
            context == created[req.session_id]
            sent == [h EXCEPT !.check = check, !.llm_called = TRUE, !.post = ask.post,
                              !.llm_question = GeneratePrompt(context, req.input)]
        IN  /\ IF ~req.has_input
               THEN /\ last' = [h EXCEPT !.response =
                                   Response(400, "error", "Missing input data", <<>>)]
                    /\ UNCHANGED conversation_contexts
               ELSE IF check.kind = "raise"
               THEN /\ last' = [h EXCEPT !.check = check,
                                   !.response = Response(500, "error", "exception", <<>>)]
                    /\ conversation_contexts' = created
               ELSE IF check.value.running # "True"
               THEN /\ last' = [h EXCEPT !.check = check,
                                   !.response = Response(503, "error",
                                                    "Ollama service is not available", <<>>)]
                    /\ conversation_contexts' = created
               ELSE IF asked.kind = "raise"
               THEN /\ last' = [sent EXCEPT !.response =
                                   Response(500, "error", "exception", <<>>)]
                    /\ conversation_contexts' = created
               ELSE IF StartsWith(asked.value, <<"E","r","r","o","r",":">>)
               THEN /\ last' = [sent EXCEPT !.response =
                                   Response(500, "error", "", asked.value)]
                    /\ conversation_contexts' = created
               ELSE /\ last' = [sent EXCEPT !.response =
                                   Response(200, "result", "", asked.value),
                                   !.trimmed = (Len(context) + 2 > 10)]
                    /\ conversation_contexts' =
                          DictSet(created, req.session_id,
                                  AppendExchange(context, req.input, asked.value))
            /\ UNCHANGED uploads
            /\ UNCHANGED <<extractVars, llmVars, statusVars>>

Generate == GenerateWith(GenerateRequests)

\* requests of a conversation: two different utterances in one session, one
\* in the other
TurnRequests ==
    { [kind |-> "generate", has_input |-> FALSE, input |-> <<>>,
       session_id |-> "default"],
      [kind |-> "generate", has_input |-> TRUE, input |-> <<"h","i">>,
       session_id |-> "default"],
      [kind |-> "generate", has_input |-> TRUE, input |-> <<"y","o">>,
       session_id |-> "default"],
      [kind |-> "generate", has_input |-> TRUE, input |-> <<"h","i">>,
       session_id |-> "s1"] }

GenerateTurn == GenerateWith(TurnRequests)

\* GET /models: lines 260-267; an exception of check_ollama_status is not
\* caught and Flask answers 500
Models ==
    \E check \in ApiChecks :
        LET h == [Handled("/models", [kind |-> "models"], Response(0, "none", "", <<>>))
                  EXCEPT !.check = check]
        IN  /\ last' =
                 IF check.kind = "raise"
                 THEN [h EXCEPT !.response = Response(500, "error", "exception", <<>>)]
                 ELSE IF check.value.running = "True"
                 THEN [h EXCEPT !.response = Response(200, "models", "", <<>>)]
                 ELSE [h EXCEPT !.response =
                          Response(503, "error", "Ollama service not running", <<>>)]
            /\ UNCHANGED <<uploads, conversation_contexts>>
            /\ UNCHANGED <<extractVars, llmVars, statusVars>>

InitApi ==
    /\ IdleExtract
    /\ IdleLlm
    /\ IdleStatus
    /\ uploads = {}
    /\ conversation_contexts = <<>>
    /\ last = NoRequest

NextUpload ==
    \/ ExtractRejected
    \/ ExtractSaveFails
    \/ ExtractSaved
    \/ AnalyzeRejected
    \/ AnalyzeSaveFails
    \/ AnalyzeSaved

NextAsk ==
    \/ Question
    \/ AskChart
    \/ Generate
    \/ Models

SpecUpload == InitApi /\ [][NextUpload]_vars

SpecAsk == InitApi /\ [][NextAsk]_vars

SpecGenerate == InitApi /\ [][GenerateTurn]_vars

-----------------------------------------------------------------------------
(* Properties of the table extractor *)

SetMin(S) == CHOOSE x \in S : \A y \in S : x <= y
SetMax(S) == CHOOSE x \in S : \A y \in S : x >= y

\* `padded` is `orig` followed by empty strings only
IsRightPadded(orig, padded) ==
    /\ Len(padded) >= Len(orig)
    /\ \A k \in 1..Len(orig) : padded[k] = orig[k]
    /\ \A k \in (Len(orig) + 1)..Len(padded) : padded[k] = <<>>

\* max(len(headers), longest row, 1) of a table
WidthOf(h, d) == SetMax({1, Len(h)} \cup { Len(d[k]) : k \in 1..Len(d) })

RowsSameLengthAsHeaders == \A k \in 1..Len(data) : Len(data[k]) = Len(headers)

PaddedFromParsed ==
    /\ Len(headers) = WidthOf(parsed.headers, parsed.data)
    /\ IsRightPadded(parsed.headers, headers)
    /\ Len(data) = Len(parsed.data)
    /\ \A k \in 1..Len(parsed.data) : IsRightPadded(parsed.data[k], data[k])

\* C1 as stated: for every raw output the returned rows all have the length
\* of the returned headers, that length is max(len(headers), longest row, 1)
\* of the parsed table, and headers and rows are the parsed ones padded on
\* the right with empty strings.
C1_AsStated == epc = "done" => RowsSameLengthAsHeaders /\ PaddedFromParsed

\* C1 amended: the returned rows always have the length of the returned
\* headers; when the parsed table has at least one data row, that length is
\* max(len(headers), longest row, 1) of the parsed table and headers and rows
\* are the parsed ones padded on the right with empty strings.
C1_RowsPadded ==
    epc = "done" =>
        /\ RowsSameLengthAsHeaders
        /\ parsed.data # <<>> => PaddedFromParsed

\* a table whose headers and one of whose rows were both padded
C1_Witness ==
    /\ epc = "done"
    /\ parsed.data # <<>>
    /\ Len(parsed.headers) < Len(headers)
    /\ \E k \in 1..Len(data) : Len(parsed.data[k]) < Len(data[k])

\* C2: when neither pass yields a data row the result is exactly
\* headers = ["Column 1"], rows = [["No data extracted"]], also when a header
\* line had been found.
C2_Placeholder ==
    (epc = "done" /\ parsed.data = <<>>) =>
        /\ headers = <<<<"C","o","l","u","m","n"," ","1">>>>
        /\ data = <<<<NoDataExtracted>>>>

\* no data row, although headers had been found
C2_Witness == epc = "done" /\ parsed.data = <<>> /\ parsed.headers # <<>>

Region == <<"R","e","g","i","o","n">>
Amount == <<"A","m","o","u","n","t">>

ExampleTable ==
    (epc = "done" /\ raw_output = ExampleRaw) =>
        /\ headers = <<Region, Amount>>
        /\ data = << <<<<"E","a","s","t">>, <<"1","0","0">>>>,
                     <<<<"W","e","s","t">>, <<"2","0","0">>>> >>

\* the cells of the lines whose indices are in S, in input order
RECURSIVE RowsAt(_, _)
RowsAt(ls, S) ==
    IF S = {} THEN <<>>
    ELSE <<Parts(ls[SetMin(S)])>> \o RowsAt(ls, S \ {SetMin(S)})

\* headers are the cells of the first line of S, rows those of the later
\* lines of S that have a cell
HeadersThenRows(ls, S) ==
    IF S = {} THEN headers = <<>> /\ data = <<>>
    ELSE /\ headers = Parts(ls[SetMin(S)])
         /\ data = RowsAt(ls, { i \in S : i > SetMin(S) /\ Parts(ls[i]) # <<>> })

PipeLinesWithoutTITLE(ls) ==
    { i \in 1..Len(ls) : HasPipe(ls[i]) /\ ~ContainsTITLE(ls[i]) }

\* C3 as stated: the example table; and when line 0 has no pipe, the first
\* pipe-delimited line not containing TITLE becomes the headers and every
\* later non-empty pipe-delimited line not containing TITLE becomes a row.
C3_AsStated ==
    /\ ExampleTable
    /\ (epc = "primary" /\ ~HasPipe(lines[1])) =>
           HeadersThenRows(lines, PipeLinesWithoutTITLE(lines))

\* C3 amended: the example table; and when line 0 has no pipe, after the
\* pipe-based pass the first pipe-delimited line not containing TITLE (in any
\* letter case) that has a non-blank cell is the headers and every later such
\* line is a row, in input order.
C3_HeadersThenRows ==
    /\ ExampleTable
    /\ (epc = "primary" /\ ~HasPipe(lines[1])) =>
           HeadersThenRows(lines,
               { i \in PipeLinesWithoutTITLE(lines) : Parts(lines[i]) # <<>> })

\* line 0 without a pipe, a blank pipe line, then headers and two rows
C3_Witness ==
    /\ epc = "primary"
    /\ ~HasPipe(lines[1])
    /\ \E i \in 1..Len(lines) : HasPipe(lines[i]) /\ Parts(lines[i]) = <<>>
    /\ headers # <<>>
    /\ Len(data) >= 2

\* last non-empty pipe-delimited cell of a line, "Chart" when it has none
LastCell(line) == IF Parts(line) = <<>> THEN Chart ELSE Parts(line)[Len(Parts(line))]

PipeLines(ls) == { i \in 1..Len(ls) : HasPipe(ls[i]) }

\* C10 as stated: the first line containing a pipe, wherever it occurs, and
\* every line containing TITLE are title lines, the title being the last
\* non-empty cell; a title line is never headers or a row; the first
\* pipe-delimited line after the title becomes headers.
C10_AsStated ==
    (epc = "primary" /\ PipeLines(lines) # {}) =>
        LET T == {SetMin(PipeLines(lines))} \cup
                 { i \in 1..Len(lines) : ContainsTITLE(lines[i]) }
        IN  /\ title = LastCell(lines[SetMax(T)])
            /\ HeadersThenRows(lines, PipeLines(lines) \ T)

\* the pipe lines that line 77 makes title lines
TitleLines(ls) == { i \in PipeLines(ls) : i = 1 \/ ContainsTITLE(ls[i]) }

\* C10 amended: in the pipe-based pass a line containing a pipe is a title
\* line exactly when it is line 0 of the output or contains TITLE (in any
\* letter case); the title is the last non-empty cell of the last title line
\* ("Chart" when there is none); a title line is never headers or a row; the
\* first other pipe-delimited line with a non-blank cell becomes headers and
\* the later ones rows.
C10_TitleLines ==
    epc = "primary" =>
        /\ title = IF TitleLines(lines) = {} THEN Chart
                   ELSE LastCell(lines[SetMax(TitleLines(lines))])
        /\ HeadersThenRows(lines,
               { i \in PipeLines(lines) \ TitleLines(lines) : Parts(lines[i]) # <<>> })

\* a lower-case title line after line 0 gave the title, and headers follow
C10_Witness ==
    /\ epc = "primary"
    /\ \E i \in 2..Len(lines) :
          /\ i \in TitleLines(lines)
          /\ ~StrContains(lines[i], TITLE)
          /\ title = LastCell(lines[i])
          /\ \E j \in (i + 1)..Len(lines) : headers = Parts(lines[j]) /\ headers # <<>>

\* the token rows of the lines of ls, at the positions in S, in input order
RECURSIVE TokenRowsAt(_, _)
TokenRowsAt(ls, S) ==
    IF S = {} THEN <<>>
    ELSE LET i == SetMin(S) IN <<SplitWs(ls[i])>> \o TokenRowsAt(ls, S \ {i})

\* the positions of the lines with two or more whitespace-separated tokens
TokenLines(ls) == { i \in 1..Len(ls) : Len(SplitWs(ls[i])) >= 2 }

\* the same, leaving out the lines that contain TITLE in any letter case
TokenLinesWithoutTITLE(ls) == { i \in TokenLines(ls) : ~ContainsTITLE(ls[i]) }

\* a token that is digits only once "." and "%" are removed
ClaimedNumeric(tok) ==
    LET kept == SelectSeq(tok, LAMBDA c : c \notin {".", "%"})
    IN  kept # <<>> /\ \A k \in 1..Len(kept) : kept[k] \in DigitChars

\* headers and rows chosen from the candidate rows
ChosenFrom(candidates, h, d) ==
    IF \A k \in 1..Len(candidates[1]) : ~ClaimedNumeric(candidates[1][k])
    THEN h = candidates[1] /\ d = Tail(candidates)
    ELSE /\ h = [k \in 1..Len(candidates[1]) |-> ColumnPrefix \o IntToStr(k)]
         /\ d = candidates

\* C11 as stated: the fallback runs exactly when headers or rows are empty
\* after the primary pass, and its candidate rows are all the lines with two
\* or more whitespace-separated tokens; the first candidate row becomes the
\* headers if none of its tokens is numeric, else the headers are
\* "Column 1".."Column n" and every candidate is a row.
C11_AsStated ==
    [][(epc = "primary" /\ epc' = "parsed") =>
          /\ fallback_ran' <=> (headers = <<>> \/ data = <<>>)
          /\ (fallback_ran' /\ TokenLines(lines) # {}) =>
                 ChosenFrom(TokenRowsAt(lines, TokenLines(lines)), headers', data')]_vars

\* C11 amended: the candidate rows are the lines with two or more tokens
\* that do not contain TITLE in any letter case; without any candidate the
\* fallback leaves headers and rows as the primary pass left them, and when
\* the fallback does not run they are left as well.
C11_FallbackCandidates ==
    [][(epc = "primary" /\ epc' = "parsed") =>
          /\ fallback_ran' <=> (headers = <<>> \/ data = <<>>)
          /\ (fallback_ran' /\ TokenLinesWithoutTITLE(lines) # {}) =>
                 ChosenFrom(TokenRowsAt(lines, TokenLinesWithoutTITLE(lines)),
                            headers', data')
          /\ (~fallback_ran' \/ TokenLinesWithoutTITLE(lines) = {}) =>
                 headers' = headers /\ data' = data]_vars

\* the fallback ran on lines of which one, holding TITLE and two tokens, was
\* not a candidate, and generic headers were made for a numeric first
\* candidate
C11_Witness ==
    /\ epc = "parsed"
    /\ fallback_ran
    /\ TokenLinesWithoutTITLE(lines) # TokenLines(lines)
    /\ TokenLinesWithoutTITLE(lines) # {}
    /\ headers = <<ColumnPrefix \o <<"1">>, ColumnPrefix \o <<"2">>>>
    /\ Len(data) = 1

-----------------------------------------------------------------------------
(* Properties of the LLM client *)

\* the POST failed: a timeout, a connection error, a non-200 status, or a
\* 200 response whose body is not JSON or has no `response` field
PostFailed(o) ==
    \/ o.kind \in {"timeout", "connection"}
    \/ o.kind = "response" /\ o.status # 200
    \/ o.kind = "response" /\ o.status = 200 /\ (o.body.json = "invalid" \/ ~o.body.has_key)

\* C4: ask_local_llm never raises; for every outcome of the POST it returns
\* a string, and on every failure outcome the string begins with "Error:".
C4_NeverRaises ==
    lpc = "finished" =>
        /\ llm_result.kind = "return"
        /\ PostFailed(post_outcome) =>
               StartsWith(llm_result.value, <<"E","r","r","o","r",":">>)

ClaimedKeywords ==
    { <<"c","o","l","o","r">>, <<"c","o","l","o","u","r","s">>,
      <<"v","i","s","u","a","l">>, <<"a","p","p","e","a","r","a","n","c","e">>,
      <<"s","t","y","l","e">>, <<"d","e","s","i","g","n">>, <<"s","c","h","e","m","e">> }

\* the lower-cased question has one of the keywords as a substring
MentionsKeyword(q) ==
    \E w \in ClaimedKeywords : \E i \in 1..Len(q) :
        /\ i + Len(w) - 1 <= Len(q)
        /\ SubSeq(Lower(q), i, i + Len(w) - 1) = w

\* C7: the prompt contains the five-point visual-analysis block iff the
\* lower-cased question contains one of the keywords; otherwise it contains
\* the generic instruction instead; either way it starts with the base block
\* of title, table text and question.
C7_VisualBlockIffKeyword ==
    lpc \in {"posting", "finished"} =>
        /\ StrContains(prompt, VisualInstructions) <=> MentionsKeyword(question)
        /\ StrContains(prompt, GenericInstructions) <=> ~MentionsKeyword(question)
        /\ StartsWith(prompt,
               <<"T","i","t","l","e",":"," ">> \o chart_title \o
               <<"\n","D","a","t","a",":"," ">> \o table_data \o
               <<"\n","Q","u","e","s","t","i","o","n",":"," ">> \o question \o <<"\n">>)

\* a keyword written in upper case, absent verbatim from the question,
\* selected the visual block
C7_Witness ==
    /\ lpc = "posting"
    /\ StrContains(prompt, VisualInstructions)
    /\ ~(\E w \in ClaimedKeywords : StrContains(question, w))

-----------------------------------------------------------------------------
(* Properties of the status checker and of the status cache *)

\* the GET succeeded: a 200 response whose body lists the models
GetSucceeded(o) ==
    o.kind = "response" /\ o.status = 200 /\ o.body.json = "object" /\ o.body.has_key

\* C6: check_ollama_status never raises; it returns (True, model names) on
\* success and (False, []) on any failure, including a 200 response whose
\* body is malformed or lacks `models`.
C6_NeverRaises ==
    last_poll # NoPoll =>
        /\ last_poll.result.kind = "return"
        /\ last_poll.result.value =
               IF GetSucceeded(last_poll.outcome)
               THEN [running |-> "True", models |-> last_poll.outcome.body.value]
               ELSE [running |-> "False", models |-> <<>>]

Distance(a, b) == IF a >= b THEN a - b ELSE b - a

\* C5: of any two /status requests made within 30 seconds of each other at
\* most one polls the model-listing endpoint (the other is served from the
\* cache); a request made 30 seconds or more after the last recorded check
\* polls and refreshes the cache.  A request is made when status() reads
\* the clock.
C5_OnePollPer30s ==
    /\ \A i, j \in 1..Len(req_log) :
          (i < j /\ Distance(req_log[i].time, req_log[j].time) < 30)
              => ~(req_log[i].polled /\ req_log[j].polled)
    /\ \A i \in 1..Len(req_log) :
          req_log[i].stale => req_log[i].polled /\ req_log[i].refreshed

-----------------------------------------------------------------------------
(* Properties of the upload endpoints *)

UploadEndpoints == { "/extract", "/api/analyze-chart" }

ClaimedExtensions ==
    { <<"p","n","g">>, <<"j","p","g">>, <<"j","p","e","g">>, <<"g","i","f">> }

\* the name ends with a dot and one of the extensions, in any case
HasClaimedExtension(f) ==
    \E e \in ClaimedExtensions :
        /\ Len(f) > Len(e)
        /\ Lower(SubSeq(f, Len(f) - Len(e), Len(f))) = <<".">> \o e

InvalidUpload(req) ==
    \/ ~req.has_image
    \/ req.filename = <<>>
    \/ ~HasClaimedExtension(req.filename)

\* C8: an upload to /extract or /api/analyze-chart with no image part, an
\* empty filename or an extension other than png/jpg/jpeg/gif (in any case)
\* is answered with HTTP 400, saves no file and does not invoke the
\* image-to-text model.
C8_InvalidUploadRejected ==
    [][(last'.endpoint \in UploadEndpoints /\ InvalidUpload(last'.request)) =>
          /\ last'.response.code = 400
          /\ uploads' = uploads
          /\ ~last'.saved
          /\ ~last'.deplot_invoked]_vars

\* a name that mentions an allowed extension before its real one was
\* rejected by /api/analyze-chart
C8_Witness ==
    /\ last.endpoint = "/api/analyze-chart"
    /\ last.request.has_image
    /\ last.request.filename = <<"a",".","p","n","g",".","t","x","t">>
    /\ last.response.code = 400
    /\ ~last.deplot_invoked

-----------------------------------------------------------------------------
(* Properties of the endpoints that forward a prompt *)

\* the POST failed in transport: timeout, connection error or non-200
TransportFailure(post) ==
    \/ post.kind \in {"timeout", "connection"}
    \/ post.kind = "response" /\ post.status # 200

\* the availability check returned and reported the service down
ReportedDown(check) == check.kind = "return" /\ check.value.running = "False"

\* C9 as stated: every endpoint that forwarded a prompt whose call failed in
\* transport answers 200 with the "Error: ..." string as its answer, and 503
\* is returned only when the availability check reports the service down.
C9_AsStated ==
    /\ (last.llm_called /\ TransportFailure(last.post)) =>
          /\ last.response.code = 200
          /\ StartsWith(last.response.text, ErrorPrefix)
    /\ last.response.code = 503 => ReportedDown(last.check)

\* C9: after a transport failure of the forwarded call, /question and
\* /api/ask-chart answer 200 with the "Error: ..." string as the answer,
\* while /api/generate answers HTTP 500 with that string as the error; 503 is
\* returned only when the availability check reports the service down.
C9_TransportFailureEnvelope ==
    /\ (last.llm_called /\ TransportFailure(last.post)) =>
          /\ StartsWith(last.response.text, ErrorPrefix)
          /\ last.endpoint \in {"/question", "/api/ask-chart"} =>
                 last.response.code = 200 /\ last.response.kind = "answer"
          /\ last.endpoint = "/api/generate" =>
                 last.response.code = 500 /\ last.response.kind = "error"
    /\ last.response.code = 503 => ReportedDown(last.check)

\* /api/generate forwarded a prompt, the POST timed out, and the endpoint
\* answered 500
C9_Witness ==
    /\ last.endpoint = "/api/generate"
    /\ last.llm_called
    /\ last.post.kind = "timeout"
    /\ last.response.code = 500

-----------------------------------------------------------------------------
(* Properties of the conversation contexts *)

\* the entries of a session; none for a session never seen
EntriesOf(contexts, sid) == IF sid \in DOMAIN contexts THEN contexts[sid] ELSE <<>>

\* the n most recent entries of xs, in their original order
MostRecent(xs, n) ==
    LET m == IF Len(xs) < n THEN Len(xs) ELSE n
    IN  [k \in 1..m |-> xs[Len(xs) - m + k]]

\* the two utterances of the exchange the last request completed
ExchangeOf(h) ==
    << <<"U","s","e","r",":"," ">> \o h.request.input,
       <<"A","s","s","i","s","t","a","n","t",":"," ">> \o h.response.text >>

\* C12: each completed /api/generate request leaves every session with at
\* most 10 entries; a successful one appends the user utterance and then the
\* assistant utterance to its session, which then holds the 10 most recent
\* entries in their original order, and a failed one appends nothing; the
\* other sessions keep their entries.
C12_ContextBounded ==
    [][\A sid \in SessionIds :
          LET before == EntriesOf(conversation_contexts, sid)
              after == EntriesOf(conversation_contexts', sid)
          IN  /\ Len(after) <= 10
              /\ after =
                    IF last'.response.code = 200 /\ last'.request.session_id = sid
                    THEN MostRecent(before \o ExchangeOf(last'), 10)
                    ELSE before]_vars

\* a session that held 10 entries completed one more exchange and lost its
\* two oldest entries, while the other session holds fewer entries
C12_Witness ==
    /\ last.endpoint = "/api/generate"
    /\ last.response.code = 200
    /\ last.trimmed
    /\ last.request.session_id = "default"
    /\ Len(EntriesOf(conversation_contexts, "default")) = 10
    /\ conversation_contexts["default"][1] # conversation_contexts["default"][9]
    /\ Len(EntriesOf(conversation_contexts, "s1")) = 2

-----------------------------------------------------------------------------
(* Properties of the temporary files *)

\* the path under which the last request saved its upload
SavedPath == <<"u","p","l","o","a","d","s","/">> \o SecureFilename(last.request.filename)

\* C13: once a request that saved an upload has completed, the temporary
\* file is gone from the upload folder, whether extraction returned or
\* raised, unless the removal itself failed; a failed removal leaves the
\* response what the extraction made it.
C13_TempFileRemoved ==
    (last.endpoint \in {"/extract", "/api/analyze-chart"} /\ last.saved) =>
        /\ last.remove # "failed" => SavedPath \notin uploads
        /\ last.response.code = IF last.extraction = "raised" THEN 500 ELSE 200

-----------------------------------------------------------------------------
(* Properties of the retry wrapper *)

\* the processing of the last request failed with an exception
ProcessingRaised(h) == h.response.code = 500 /\ h.response.error = "exception"

\* C14: when the processing of a request to /api/generate,
\* /api/analyze-chart or /api/ask-chart fails with an exception the endpoint
\* is invoked again, 3 times in total at most, 2 seconds after each failed
\* attempt.
C14_RetriedOnException ==
    (last.endpoint \in {"/api/generate", "/api/analyze-chart", "/api/ask-chart"}
        /\ ProcessingRaised(last)) =>
        /\ last.attempts \in 2..3
        /\ last.slept = 2 * (last.attempts - 1)

-----------------------------------------------------------------------------
(* Properties of concurrent /status requests *)

\* the reply carries the pair that one poll returned
FromOnePoll(reply) ==
    \E p \in poll_pairs :
        /\ reply.ollama_available = p.running
        /\ reply.available_models = [none |-> FALSE, names |-> p.models]

\* C15: under any interleaving of concurrent /status requests, every
\* (ollama_available, available_models) pair a request returns is the pair
\* produced by one single upstream poll.
C15_NoTornPair ==
    \A i \in 1..Len(req_log) :
        req_log[i].reply.has_ollama => FromOnePoll(req_log[i].reply)

-----------------------------------------------------------------------------
(* Properties of the /extract response *)

\* C16: in a 200 response of /extract, `data` has one object per extracted
\* row, in order, and each object has exactly len(headers) entries and maps
\* the i-th header to the i-th cell of its row, also when header names are
\* empty or repeated.
C16_RowObjectsComplete ==
    (last.endpoint = "/extract" /\ last.response.code = 200) =>
        LET t == last.response.table
        IN  /\ Len(t.rows) = Len(t.data)
            /\ \A k \in 1..Len(t.rows) :
                  /\ Cardinality(DOMAIN t.rows[k]) = Len(t.headers)
                  /\ \A i \in 1..Len(t.headers) : t.rows[k][t.headers[i]] = t.data[k][i]

====
